---------------------------- MODULE Spec2Model ----------------------------
(***************************************************************************)
(* SRV3/YTT subtitle demuxer (libavformat/srv3dec.c) and decoder           *)
(* (libavcodec/srv3dec.c).                                                 *)
(*                                                                         *)
(* The specifications below share the definitions:                         *)
(*   Spec       srv3_read_header's two loops: the head elements (pen, wp)  *)
(*              and then the body elements (p and its child nodes);        *)
(*   SpecClean  srv3_clean_segment_text applied in place to a buffer;      *)
(*   SpecPen    srv3_read_pen's attribute loop, one attribute a step;      *)
(*   SpecStyle  srv3_decoder_init's loop over the pens of the head;        *)
(*   SpecPosition  srv3_position_event on the event of a packet;           *)
(*   SpecCoord  srv3_coord_to_ass over the coordinates 0 .. 100.           *)
(*                                                                         *)
(* Text is a sequence of bytes (UTF-8).  Pointers are addresses: NULL is   *)
(* 0, &srv3_default_pen is DefaultPenAddr, and the pens and the window     *)
(* positions allocated are numbered, each type apart, in allocation order. *)
(* A local of a C function is passed on as an operator's parameter.        *)
(***************************************************************************)
EXTENDS Integers, Sequences, FiniteSets, TLC

VARIABLES
    pc,         \* Spec: position in srv3_read_header / srv3_read_body
    ret,        \* Spec: the return value of srv3_read_header
    pens,       \* ctx->pens: the pen list from its head, the default pen last
    wps,        \* ctx->wps: the window position list from its head
    element,    \* the top-level element the loops of Spec are at
    node,       \* the child node of a paragraph the inner loop is at
    event,      \* the SRV3EventMeta of the current paragraph
    event_pen,  \* srv3_read_body's event_pen (an address)
    textbuf,    \* srv3_read_body's textbuf
    lastlen,    \* srv3_read_body's lastlen
    start,      \* srv3_read_body's start
    duration,   \* srv3_read_body's duration
    q,          \* ctx->q: the packets inserted, in insertion order
    ctx_segments, \* ctx->segments: the segment lists linked in, from its head
    freed,      \* what srv3_free_context_data has passed to av_free
    log,        \* the av_log warnings of the last step
    count,      \* Spec: the elements and nodes read so far
    text,       \* SpecClean: the buffer srv3_clean_segment_text works on
    textlen,    \* SpecClean: its last return value
    calls,      \* SpecClean: what the buffer held before and after each call
    pen,        \* SpecPen: the pen srv3_read_pen is filling
    attr,       \* SpecPen: the attribute last read, with the pen before it
    seen,       \* SpecPen: the names of the attributes read
    head,       \* SpecStyle: head->pens, the pen list of the coded side data
    subtitle_header, \* SpecStyle: the style records srv3_decoder_init emitted
    event_wp,   \* SpecPosition: event->wp of the packet being decoded
    position,   \* SpecPosition: what srv3_position_event stored
    aligned,    \* SpecPosition: the anchor points decoded, each with its alignment
    coord_max,  \* SpecCoord: the max srv3_coord_to_ass is called with
    coords      \* SpecCoord: its results for coord = 0, 1, 2, ...

vars == <<pc, ret, pens, wps, element, node, event, event_pen, textbuf,
          lastlen, start, duration, q, ctx_segments, freed, log, count,
          text, textlen, calls, pen, attr, seen, head, subtitle_header,
          event_wp, position, aligned, coord_max, coords>>

docVars == <<pc, ret, pens, wps, element, node, event, event_pen, textbuf,
             lastlen, start, duration, q, ctx_segments, freed, log,
             count>>
closeVars == <<ctx_segments, freed>>
cleanVars == <<text, textlen, calls>>
penVars == <<pen, attr, seen>>
styleVars == <<head, subtitle_header>>
posVars == <<event_wp, position, aligned>>
coordVars == <<coord_max, coords>>
decVars == <<styleVars, posVars, coordVars>>

---------------------------------------------------------------------------
(* Bounds of the model.                                                    *)

\* the longest buffer, in code points, SpecClean draws
MaxLen == 5
\* the most pen elements of a head
MaxPens == 2
\* the most wp elements of a head
MaxWps == 1
\* the most children of a body
MaxElems == 2
\* the most child nodes read, over all paragraphs
MaxNodes == 2
\* the most attributes of a pen element in SpecPen
MaxAttrs == 2
\* the widest of the small values of max SpecCoord draws
MaxWidth == 4

---------------------------------------------------------------------------
(* Bytes and text.                                                         *)

NULL == 0

\* U+200B in UTF-8
ZERO_WIDTH_SPACE == <<226, 128, 139>>
YTSUBCONV_PADDING_SPACE == ZERO_WIDTH_SPACE \o <<32>> \o ZERO_WIDTH_SPACE

\* The code points the inputs are made of, and their UTF-8 encodings.
CodePoints == {"ZW", "SP", "A", "NL"}

Utf8(cp) ==
    CASE cp = "ZW" -> ZERO_WIDTH_SPACE
      [] cp = "SP" -> <<32>>
      [] cp = "NL" -> <<10>>
      [] cp = "CR" -> <<13>>
      [] cp = "A"  -> <<65>>
      [] cp = "B"  -> <<66>>

RECURSIVE Encode(_)
Encode(cps) ==
    IF cps = <<>> THEN <<>> ELSE Utf8(Head(cps)) \o Encode(Tail(cps))

\* bytes from..to of s (1-based, empty when to < from)
Slice(s, from, to) == IF to < from THEN <<>> ELSE SubSeq(s, from, to)

\* strstr(s + (from - 1), pat): the index of the first occurrence of pat in s
\* at or after index from, NULL when there is none
RECURSIVE StrStr(_, _, _)
StrStr(s, from, pat) ==
    IF from + Len(pat) - 1 > Len(s) THEN NULL
    ELSE IF SubSeq(s, from, from + Len(pat) - 1) = pat THEN from
    ELSE StrStr(s, from + 1, pat)

\* The pointer srv3_clean_segment_text's loop stops the copy at: zw is the
\* next marker, pad the next padding sequence.
CleanEnd(zw, pad) == IF pad # NULL THEN pad ELSE zw

\* Where the loop resumes after the marker at end.
CleanResume(zw, pad) ==
    IF pad # NULL THEN pad + Len(YTSUBCONV_PADDING_SPACE)
    ELSE zw + Len(ZERO_WIDTH_SPACE)

\* srv3_clean_segment_text's loop: s is the buffer, from the index `start`
\* points at, out the bytes written so far.
RECURSIVE CleanLoop(_, _, _)

\* the memmove of cnt = end - start bytes (or of the rest), and the step on
CleanCopy(s, from, out, zw, pad, end) ==
    IF end # NULL
    THEN CleanLoop(s, CleanResume(zw, pad), out \o Slice(s, from, end - 1))
    ELSE out \o Slice(s, from, Len(s))

CleanAt(s, from, out, zw, pad) ==
    CleanCopy(s, from, out, zw, pad, CleanEnd(zw, pad))

CleanLoop(s, from, out) ==
    CleanAt(s, from, out, StrStr(s, from, ZERO_WIDTH_SPACE),
            StrStr(s, from, YTSUBCONV_PADDING_SPACE))

\* srv3_clean_segment_text: the buffer up to the terminator it writes; its
\* return value is the length of that.
srv3_clean_segment_text(s) == CleanLoop(s, 1, <<>>)

HasMarker(s) == StrStr(s, 1, ZERO_WIDTH_SPACE) # NULL

\* text[i] is '\n' or '\r' for every i (srv3_read_body's scan)
OnlyNewlines(s) == \A i \in 1 .. Len(s) : s[i] \in {10, 13}

---------------------------------------------------------------------------
(* The attribute validator.  An attribute value is a sequence of            *)
(* characters; strtol is modelled by what it does to them.                 *)

INT_MAX == 2147483647
ERANGE == 34
ENOMEM == 12
AVERROR(e) == -e
\* -MKTAG(0xF8,'I','N','D','A')
AVERROR_INVALIDDATA == -1094995529

IsSpace(c) == c \in {" ", "\t", "\n"}

\* the value of c as a digit, 99 when it is none
DigitVal(c) ==
    CASE c = "0" -> 0 [] c = "1" -> 1 [] c = "2" -> 2 [] c = "3" -> 3
      [] c = "4" -> 4 [] c = "5" -> 5 [] c = "6" -> 6 [] c = "7" -> 7
      [] c = "8" -> 8 [] c = "9" -> 9
      [] c \in {"a", "A"} -> 10 [] c \in {"b", "B"} -> 11
      [] c \in {"c", "C"} -> 12 [] c \in {"d", "D"} -> 13
      [] c \in {"e", "E"} -> 14 [] c \in {"f", "F"} -> 15
      [] OTHER -> 99

RECURSIVE SkipSpaces(_, _)
SkipSpaces(v, i) ==
    IF i <= Len(v) /\ IsSpace(v[i]) THEN SkipSpaces(v, i + 1) ELSE i

\* the digits of v from index i on: [val, next], next the index after them
RECURSIVE Digits(_, _, _, _)
Digits(v, i, base, acc) ==
    IF i <= Len(v) /\ DigitVal(v[i]) < base
    THEN Digits(v, i + 1, base, acc * base + DigitVal(v[i]))
    ELSE [val |-> acc, next |-> i]

\* strtol's result: i2 is where the digits were to start, d what Digits
\* found there.  With no digit nothing is consumed: endptr is value.
StrtolResult(neg, i2, d) ==
    IF d.next = i2 THEN [parsed |-> 0, endptr |-> 1]
    ELSE [parsed |-> IF neg THEN 0 - d.val ELSE d.val, endptr |-> d.next]

\* the index after a "0x" that hex digits follow
SkipHexPrefix(value, base, i1) ==
    IF /\ base = 16
       /\ i1 + 2 <= Len(value)
       /\ value[i1] = "0"
       /\ value[i1 + 1] \in {"x", "X"}
       /\ DigitVal(value[i1 + 2]) < 16
    THEN i1 + 2 ELSE i1

StrtolDigits(value, base, neg, i2) ==
    StrtolResult(neg, i2, Digits(value, i2, base, 0))

\* i0 is the index after the leading white space
StrtolSigned(value, base, i0) ==
    StrtolDigits(value, base, i0 <= Len(value) /\ value[i0] = "-",
                 SkipHexPrefix(value, base,
                    IF i0 <= Len(value) /\ value[i0] \in {"-", "+"}
                    THEN i0 + 1 ELSE i0))

\* strtol(value, &endptr, base): [parsed, endptr], endptr an index into
\* value, Len(value) + 1 the terminator.  The inputs are short, so the
\* clamp to LONG_MIN..LONG_MAX is never reached.
strtol(value, base) == StrtolSigned(value, base, SkipSpaces(value, 1))

\* What srv3_parse_numeric_value does once strtol has run: r is strtol's
\* result, old the value *out holds, hasOut whether out is non-NULL.
\* [ret, out, log]: the return value, *out afterwards, the warnings.
ParseChecksStoreFirst(value, r, old, hasOut, min, max) ==
    IF r.endptr <= Len(value)
    THEN [ret |-> AVERROR_INVALIDDATA, out |-> old,
          log |-> <<[msg |-> "Failed to parse value", value |-> value]>>]
    ELSE IF r.parsed < min \/ r.parsed > max
    THEN [ret |-> AVERROR(ERANGE), out |-> IF hasOut THEN r.parsed ELSE old,
          log |-> <<[msg |-> "Value out of range", value |-> r.parsed]>>]
    ELSE IF hasOut THEN [ret |-> 0, out |-> r.parsed, log |-> <<>>]
    ELSE [ret |-> r.parsed, out |-> old, log |-> <<>>]

ParseChecks(value, r, old, hasOut, min, max) ==
    IF r.endptr <= Len(value)
    THEN [ret |-> AVERROR_INVALIDDATA, out |-> old,
          log |-> <<[msg |-> "Failed to parse value", value |-> value]>>]
    ELSE IF r.parsed < min \/ r.parsed > max
    THEN [ret |-> AVERROR(ERANGE), out |-> old,
          log |-> <<[msg |-> "Value out of range", value |-> r.parsed]>>]
    ELSE IF hasOut THEN [ret |-> 0, out |-> r.parsed, log |-> <<>>]
    ELSE [ret |-> r.parsed, out |-> old, log |-> <<>>]

srv3_parse_numeric_value(value, base, old, hasOut, min, max) ==
    ParseChecks(value, strtol(value, base), old, hasOut, min, max)

\* r with ok: whether srv3_parse_numeric_value returned 0
WithOk(r) == [ok |-> r.ret = 0, ret |-> r.ret, out |-> r.out, log |-> r.log]

\* srv3_parse_numeric_attr: base 10, and its result (ok) is whether the
\* value was stored
srv3_parse_numeric_attr(value, old, min, max) ==
    WithOk(srv3_parse_numeric_value(value, 10, old, TRUE, min, max))

\* the text srv3_parse_color_attr hands on: past a leading '#'
ColorDigits(value) ==
    IF value # <<>> /\ Head(value) = "#" THEN Tail(value) ELSE value

\* srv3_parse_color_attr: base 16 in 0..0xFFFFFF
srv3_parse_color_attr(value, old) ==
    WithOk(srv3_parse_numeric_value(ColorDigits(value), 16, old, TRUE,
                                    0, 16777215))

---------------------------------------------------------------------------
(* Pens.                                                                   *)

DefaultPenAddr == 1

SRV3_PEN_ATTR_ITALIC == 1
SRV3_PEN_ATTR_BOLD == 2

srv3_default_pen ==
    [addr |-> DefaultPenAddr, id |-> -1, font_size |-> 100, font_style |-> 0,
     attrs |-> 0, edge_type |-> 0, edge_color |-> 131586, ruby_part |-> 0,
     foreground_color |-> 16777215, foreground_alpha |-> 254,
     background_color |-> 526344, background_alpha |-> 192]

\* a | b for a in 0..3 and b a single flag
BitOr(a, b) == IF (a \div b) % 2 = 1 THEN a ELSE a + b

\* The numeric and colour attributes of a pen element: the field each is
\* stored in and the range it is checked against.
PenAttrTable ==
    [id |-> [field |-> "id",               kind |-> "num", min |-> 0, max |-> INT_MAX],
     sz |-> [field |-> "font_size",        kind |-> "num", min |-> 0, max |-> INT_MAX],
     fs |-> [field |-> "font_style",       kind |-> "num", min |-> 1, max |-> 7],
     et |-> [field |-> "edge_type",        kind |-> "num", min |-> 1, max |-> 4],
     ec |-> [field |-> "edge_color",       kind |-> "color", min |-> 0, max |-> 16777215],
     fc |-> [field |-> "foreground_color", kind |-> "color", min |-> 0, max |-> 16777215],
     fo |-> [field |-> "foreground_alpha", kind |-> "num", min |-> 0, max |-> 255],
     bc |-> [field |-> "background_color", kind |-> "color", min |-> 0, max |-> 16777215],
     bo |-> [field |-> "background_alpha", kind |-> "num", min |-> 0, max |-> 255],
     rb |-> [field |-> "ruby_part",        kind |-> "num", min |-> 0, max |-> 5]]

\* the call of the validator for attribute a, t its row of the table
ParsePenAttr(p, a, t) ==
    IF t.kind = "color" THEN srv3_parse_color_attr(a.value, p[t.field])
    ELSE srv3_parse_numeric_attr(a.value, p[t.field], t.min, t.max)

\* the check that follows the rb attribute: p1 is the pen after the call, r
\* the call's result
RubyCheck(a, p1, r) ==
    IF a.name = "rb" /\ p1.ruby_part = 3
    THEN [pen |-> [p1 EXCEPT !.ruby_part = 0], ret |-> r.ret,
          log |-> r.log \o <<[msg |-> "Encountered unknown ruby part 3"]>>]
    ELSE [pen |-> p1, ret |-> r.ret, log |-> r.log]

\* the validator wrote through &pen->field, or left it alone
StorePenAttr(p, a, t, r) == RubyCheck(a, [p EXCEPT ![t.field] = r.out], r)

ApplyNumericPenAttr(p, a, t) == StorePenAttr(p, a, t, ParsePenAttr(p, a, t))

\* One turn of srv3_read_pen's attribute loop: [pen, ret, log], ret the
\* return value of srv3_parse_numeric_value where it is called.
ApplyPenAttr(p, a) ==
    IF a.name \in DOMAIN PenAttrTable
    THEN ApplyNumericPenAttr(p, a, PenAttrTable[a.name])
    ELSE IF a.name = "i"
    THEN [pen |-> [p EXCEPT !.attrs =
                     IF a.value = <<"1">> THEN BitOr(@, SRV3_PEN_ATTR_ITALIC) ELSE @],
          ret |-> 0, log |-> <<>>]
    ELSE IF a.name = "b"
    THEN [pen |-> [p EXCEPT !.attrs =
                     IF a.value = <<"1">> THEN BitOr(@, SRV3_PEN_ATTR_BOLD) ELSE @],
          ret |-> 0, log |-> <<>>]
    ELSE [pen |-> p, ret |-> 0,
          log |-> <<[msg |-> "Unhandled pen property", value |-> a.name]>>]

\* the attribute loop over a whole property list: [pen, log]
RECURSIVE ApplyPenAttrs(_, _, _)
ApplyPenAttrsNext(r, rest, lg) == ApplyPenAttrs(r.pen, rest, lg \o r.log)
ApplyPenAttrs(p, attrs, lg) ==
    IF attrs = <<>> THEN [pen |-> p, log |-> lg]
    ELSE ApplyPenAttrsNext(ApplyPenAttr(p, Head(attrs)), Tail(attrs), lg)

---------------------------------------------------------------------------
(* The style table: ctx->pens and ctx->wps.                                *)

\* the pen list with a new pen linked in by srv3_read_pen
LinkPenAtTail(list, p) ==
    IF list = <<>> THEN <<p>>
    ELSE SubSeq(list, 1, Len(list) - 1) \o <<p, list[Len(list)]>>
LinkPen(list, p) == <<p>> \o list

\* the scan of srv3_get_pen from the i-th pen of the list on
RECURSIVE GetPenFrom(_, _, _)
GetPenFrom(list, id, i) ==
    IF i > Len(list) THEN NULL
    ELSE IF list[i].id = id THEN list[i].addr
    ELSE GetPenFrom(list, id, i + 1)

\* srv3_get_pen: the address of the first pen of the list with this id,
\* NULL when there is none
GetPenLastMatch(list, id) ==
    IF \E i \in 1 .. Len(list) : list[i].id = id
    THEN list[CHOOSE i \in 1 .. Len(list) :
                /\ list[i].id = id
                /\ \A j \in i + 1 .. Len(list) : list[j].id # id].addr
    ELSE NULL
srv3_get_pen(list, id) == GetPenFrom(list, id, 1)

\* the pen an address points at
PenAt(list, addr) == list[CHOOSE i \in 1 .. Len(list) : list[i].addr = addr]

\* the address av_malloc returns for the next pen, and for the next window
\* position: the allocations of each type are numbered in their order
FreshPenAddr == DefaultPenAddr + Len(pens)
FreshWpAddr == Len(wps) + 1

\* the pen srv3_read_pen allocates: a copy of the default pen
NewPen(addr) == [srv3_default_pen EXCEPT !.addr = addr]

\* srv3_read_pen: the new pen is linked in and filled from the element's
\* attributes; r is what the attribute loop made of it.  [list, log]
PenRead(list, r) == [list |-> LinkPen(list, r.pen), log |-> r.log]
srv3_read_pen(list, addr, attrs) ==
    PenRead(list, ApplyPenAttrs(NewPen(addr), attrs, <<>>))

WpAttrTable ==
    [id |-> [field |-> "id",    min |-> 0, max |-> INT_MAX],
     ap |-> [field |-> "point", min |-> 0, max |-> 8],
     ah |-> [field |-> "x",     min |-> 0, max |-> 100],
     av |-> [field |-> "y",     min |-> 0, max |-> 100]]

\* One turn of srv3_read_window_pos's attribute loop, t the row of the
\* table and r the validator's result.  [wp, log]
StoreWpAttr(w, t, r) == [wp |-> [w EXCEPT ![t.field] = r.out], log |-> r.log]

ApplyNumericWpAttr(w, a, t) ==
    StoreWpAttr(w, t, srv3_parse_numeric_attr(a.value, w[t.field], t.min, t.max))

ApplyWpAttr(w, a) ==
    IF a.name \in DOMAIN WpAttrTable
    THEN ApplyNumericWpAttr(w, a, WpAttrTable[a.name])
    ELSE [wp |-> w,
          log |-> <<[msg |-> "Unhandled window pos property", value |-> a.name]>>]

RECURSIVE ApplyWpAttrs(_, _, _)
ApplyWpAttrsNext(r, rest, lg) == ApplyWpAttrs(r.wp, rest, lg \o r.log)
ApplyWpAttrs(w, attrs, lg) ==
    IF attrs = <<>> THEN [wp |-> w, log |-> lg]
    ELSE ApplyWpAttrsNext(ApplyWpAttr(w, Head(attrs)), Tail(attrs), lg)

\* the window position srv3_read_window_pos allocates: zeroed
NewWindowPos(addr) == [addr |-> addr, id |-> 0, point |-> 0, x |-> 0, y |-> 0]

\* srv3_read_window_pos: the new window position is linked in, then filled
WindowPosRead(list, r) == [list |-> <<r.wp>> \o list, log |-> r.log]
srv3_read_window_pos(list, addr, attrs) ==
    WindowPosRead(list, ApplyWpAttrs(NewWindowPos(addr), attrs, <<>>))

\* the scan of ctx->wps from its i-th entry on
RECURSIVE FindWindowPosFrom(_, _, _)
FindWindowPosFrom(list, id, i) ==
    IF i > Len(list) THEN NULL
    ELSE IF list[i].id = id THEN list[i].addr
    ELSE FindWindowPosFrom(list, id, i + 1)

\* the loop of srv3_read_body over ctx->wps: the address of the first window
\* position with this id, NULL when there is none
FindWindowPosOrHead(list, id) ==
    IF FindWindowPosFrom(list, id, 1) # NULL THEN FindWindowPosFrom(list, id, 1)
    ELSE IF list = <<>> THEN NULL ELSE list[1].addr
FindWindowPos(list, id) == FindWindowPosFrom(list, id, 1)

---------------------------------------------------------------------------
(* srv3_read_body: the attributes of a paragraph.  st is [start, duration,  *)
(* wp, event_pen, log]: the locals start, duration and event_pen, the      *)
(* event's wp, and the warnings logged; r is the validator's result.       *)

\* t: the validator writes through &start
EventStartOrZero(st, r) ==
    [st EXCEPT !.start = IF r.ok THEN <<r.out>> ELSE <<0>>, !.log = @ \o r.log]
EventStart(st, r) ==
    [st EXCEPT !.start = IF r.ok THEN <<r.out>> ELSE @, !.log = @ \o r.log]

\* d: the validator writes through &duration
EventDuration(st, r) ==
    [st EXCEPT !.duration = IF r.ok THEN <<r.out>> ELSE @, !.log = @ \o r.log]

\* wp: event->wp is wp afterwards; the warning is logged if it is NULL
EventWpSet(st, r, wp) ==
    [st EXCEPT !.wp = wp,
               !.log = @ \o r.log \o
                  IF wp = NULL
                  THEN <<[msg |-> "Non-existent window pos assigned to event",
                          value |-> r.out]>>
                  ELSE <<>>]

\* w is what the scan of ctx->wps found
EventWpFound(st, r, w) == EventWpSet(st, r, IF w # NULL THEN w ELSE st.wp)

\* r.out is the local id, whether the validator stored to it or not
EventWp(st, r, wplist) == EventWpFound(st, r, FindWindowPos(wplist, r.out))

\* p: f is what srv3_get_pen returned
EventPenFoundUnchecked(st, r, f) == [st EXCEPT !.event_pen = f]
EventPenFound(st, r, f) ==
    IF f # NULL THEN [st EXCEPT !.event_pen = f]
    ELSE [st EXCEPT !.log = @ \o
            <<[msg |-> "Non-existent pen assigned to event", value |-> r.out]>>]

EventPen(st, r, penlist) ==
    IF ~r.ok THEN [st EXCEPT !.log = @ \o r.log]
    ELSE EventPenFound(st, r, srv3_get_pen(penlist, r.out))

\* One turn of the loop over a p element's properties; garbage is the value
\* the uninitialised local id holds.
EventAttr(st, a, penlist, wplist, garbage) ==
    CASE a.name = "t" ->
           EventStart(st, srv3_parse_numeric_attr(a.value, 0, 0, INT_MAX))
      [] a.name = "d" ->
           EventDuration(st, srv3_parse_numeric_attr(a.value, 0, 0, INT_MAX))
      [] a.name = "wp" ->
           EventWp(st, srv3_parse_numeric_attr(a.value, garbage, 0, INT_MAX),
                   wplist)
      [] a.name = "p" ->
           EventPen(st, srv3_parse_numeric_attr(a.value, garbage, 0, INT_MAX),
                    penlist)
      [] a.name = "ws" -> st
      [] OTHER ->
           [st EXCEPT !.log = @ \o
               <<[msg |-> "Unhandled event property", value |-> a.name]>>]

\* the loop over a p element's properties
RECURSIVE EventAttrs(_, _, _, _, _)
EventAttrs(st, attrs, penlist, wplist, garbage) ==
    IF attrs = <<>> THEN st
    ELSE EventAttrs(EventAttr(st, Head(attrs), penlist, wplist, garbage),
                    Tail(attrs), penlist, wplist, garbage)

---------------------------------------------------------------------------
(* srv3_read_body: a child node of a paragraph.                            *)

\* the p property of an s element: st is [pen, log], pen the segment's pen;
\* r is the validator's result, f what srv3_get_pen returned
SegmentPenFoundElseDefault(st, r, f) ==
    IF f # NULL THEN [st EXCEPT !.pen = f]
    ELSE [st EXCEPT !.pen = DefaultPenAddr,
                    !.log = @ \o
            <<[msg |-> "Non-existent pen assigned to segment", value |-> r.out]>>]
SegmentPenFound(st, r, f) ==
    IF f # NULL THEN [st EXCEPT !.pen = f]
    ELSE [st EXCEPT !.log = @ \o
            <<[msg |-> "Non-existent pen assigned to segment", value |-> r.out]>>]

SegmentPenAttr(st, r, penlist) ==
    IF ~r.ok THEN [st EXCEPT !.log = @ \o r.log]
    ELSE SegmentPenFound(st, r, srv3_get_pen(penlist, r.out))

\* one turn of the loop over an s element's properties
SegmentAttr(st, a, penlist) ==
    IF a.name = "p"
    THEN SegmentPenAttr(st, srv3_parse_numeric_attr(a.value, 0, 0, INT_MAX),
                        penlist)
    ELSE [st EXCEPT !.log = @ \o
            <<[msg |-> "Unhandled segment property", value |-> a.name]>>]

RECURSIVE SegmentAttrs(_, _, _)
SegmentAttrs(st, attrs, penlist) ==
    IF attrs = <<>> THEN st
    ELSE SegmentAttrs(SegmentAttr(st, Head(attrs), penlist), Tail(attrs),
                      penlist)

\* The pen of the segment allocated for node n: event_pen, unless n is an s
\* element whose p property names a pen of the list.  [pen, log]
SegmentPenFromDefault(evpen, n, penlist) ==
    IF n.type = "element"
    THEN SegmentAttrs([pen |-> DefaultPenAddr, log |-> <<>>], n.attrs, penlist)
    ELSE [pen |-> DefaultPenAddr, log |-> <<>>]
SegmentPen(evpen, n, penlist) ==
    IF n.type = "element"
    THEN SegmentAttrs([pen |-> evpen, log |-> <<>>], n.attrs, penlist)
    ELSE [pen |-> evpen, log |-> <<>>]

\* whether the node is passed over before a segment is allocated
NodeSkipped(n) ==
    \/ n.type \notin {"element", "text"}
    \/ n.type = "element" /\ n.name # "s"
    \/ n.type = "element" /\ ~n.children

NodeSkipLog(n) ==
    IF n.type \notin {"element", "text"}
    THEN <<[msg |-> "Unexpected event child node type", value |-> n.type]>>
    ELSE IF n.type = "element" /\ n.name # "s"
    THEN <<[msg |-> "Unknown event child node name", value |-> n.name]>>
    ELSE <<>>

\* The test that folds a newline-only node into the previous segment:
\* segments is the event's list so far (segments_tail is its last element,
\* NULL when it is empty), segment the one allocated for the node.
FoldsIntoTailSameSize(segments, segment, penlist) ==
    /\ segments # <<>>
    /\ PenAt(penlist, segments[Len(segments)].pen).font_size =
           PenAt(penlist, segment.pen).font_size
FoldsIntoTail(segments, segment, penlist) ==
    /\ segments # <<>>
    /\ \/ PenAt(penlist, segments[Len(segments)].pen).font_size =
              PenAt(penlist, segment.pen).font_size
       \/ segment.next = NULL

\* the segment av_mallocz returns, with its pen set
NewSegment(p) == [size |-> 0, pen |-> p, next |-> NULL]

\* A node whose cleaned text is newlines only: the text is appended, and
\* counted in the previous segment if the test holds.
NewlineNode(st, sp, cleaned, penlist) ==
    IF FoldsIntoTail(st.event.segments, NewSegment(sp.pen), penlist)
    THEN [event |-> [st.event EXCEPT
                        !.segments[Len(st.event.segments)].size = @ + Len(cleaned)],
          textbuf |-> st.textbuf \o cleaned,
          lastlen |-> Len(st.textbuf) + Len(cleaned), log |-> sp.log]
    ELSE [event |-> st.event, textbuf |-> st.textbuf \o cleaned,
          lastlen |-> st.lastlen, log |-> sp.log]

\* add_segment: the text is appended and the segment, sized from lastlen to
\* the end of the buffer, is linked in at the tail
AddSegment(st, sp, cleaned) ==
    [event |-> [st.event EXCEPT !.segments =
                  Append(@, [size |-> Len(st.textbuf) + Len(cleaned) - st.lastlen,
                             pen |-> sp.pen])],
     textbuf |-> st.textbuf \o cleaned,
     lastlen |-> Len(st.textbuf) + Len(cleaned), log |-> sp.log]

\* sp is the segment's pen with the warnings of its resolution, cleaned the
\* node's text after srv3_clean_segment_text
NodeText(st, sp, cleaned, penlist) ==
    IF cleaned = <<>>
    THEN [event |-> st.event, textbuf |-> st.textbuf, lastlen |-> st.lastlen,
          log |-> sp.log]
    ELSE IF OnlyNewlines(cleaned) THEN NewlineNode(st, sp, cleaned, penlist)
    ELSE AddSegment(st, sp, cleaned)

\* One turn of the loop over a paragraph's children, for a node that is not
\* passed over.  st is [event, textbuf, lastlen]; the result adds log.
NodeStep(st, evpen, n, penlist) ==
    NodeText(st, SegmentPen(evpen, n, penlist),
             srv3_clean_segment_text(n.content), penlist)

\* one turn of the loop, for any node
NodeResult(st, evpen, n, penlist) ==
    IF NodeSkipped(n)
    THEN [event |-> st.event, textbuf |-> st.textbuf, lastlen |-> st.lastlen,
          log |-> NodeSkipLog(n)]
    ELSE NodeStep(st, evpen, n, penlist)

---------------------------------------------------------------------------
(* Spec: srv3_read_header.  The head elements are read first, whatever     *)
(* their place in the document, then the body elements.  A local that has  *)
(* not been assigned is the empty sequence; one read in that state yields  *)
(* any value of Garbage.  The locals of a function that has returned are   *)
(* reset to their initial values.                                          *)

NoElement == [name |-> "none"]
NoNode == [type |-> "none"]
NoEvent == [segments |-> <<>>, wp |-> NULL]
NoCount == [pens |-> 0, elems |-> 0, paras |-> 0, nodes |-> 0]
NoneFreed == [pens |-> <<>>, wps |-> <<>>, segments |-> <<>>]

\* the values the variables of the other specifications rest at
IdleDoc ==
    /\ pc = "idle" /\ ret = 0 /\ pens = <<>> /\ wps = <<>>
    /\ element = NoElement /\ node = NoNode
    /\ event = NoEvent /\ event_pen = NULL
    /\ textbuf = <<>> /\ lastlen = 0 /\ start = <<>> /\ duration = <<>>
    /\ q = <<>> /\ log = <<>> /\ count = NoCount
    /\ ctx_segments = <<>> /\ freed = NoneFreed

IdleClean == text = <<>> /\ textlen = 0 /\ calls = <<>>

IdlePen == pen = [id |-> 0] /\ attr = [name |-> "none"] /\ seen = {}

IdleStyle == head = <<>> /\ subtitle_header = <<>>
\* event->wp when the event has no window position
NoWp == [addr |-> NULL]

IdlePos == event_wp = NoWp /\ position = <<>> /\ aligned = {}
IdleCoord == coord_max = 0 /\ coords = <<>>
IdleDec == IdleStyle /\ IdlePos /\ IdleCoord

\* what an uninitialised int may hold
Garbage == {0, -7}

A_(n, v) == [name |-> n, value |-> v]

\* the pen elements a head is made of
PenElements ==
    {<<A_("id", <<"0">>), A_("sz", <<"2", "0", "0">>)>>,
     <<A_("id", <<"0">>), A_("b", <<"1">>)>>,
     <<A_("id", <<"1">>)>>}

\* the wp elements a head is made of
WpElements ==
    {<<A_("id", <<"0">>), A_("ap", <<"4">>)>>}

\* the property lists of the p elements of a body: none; a start and a
\* duration; other ones; a start that is no number and a duration out of
\* range; with them a pen and a window position that are declared (if the
\* head declares them), that are not, or whose ids are no numbers
ParagraphElements ==
    {<<>>,
     <<A_("t", <<"4">>), A_("d", <<"2">>)>>,
     <<A_("t", <<"9">>), A_("d", <<"3">>), A_("p", <<"1">>)>>,
     <<A_("t", <<"4">>), A_("d", <<"2">>), A_("wp", <<"0">>), A_("p", <<"0">>)>>,
     <<A_("t", <<"x">>), A_("d", <<"-", "1">>), A_("wp", <<"7">>), A_("p", <<"7">>)>>,
     <<A_("t", <<"4">>), A_("d", <<"2">>), A_("wp", <<"x">>), A_("p", <<"x">>),
       A_("ws", <<"1">>), A_("zz", <<"1">>)>>}

\* whether the list holds a wp property that srv3_parse_numeric_attr
\* rejects, so that the local id is read as it was declared
ReadsGarbageId(attrs) ==
    \E i \in 1 .. Len(attrs) :
        /\ attrs[i].name = "wp"
        /\ ~srv3_parse_numeric_attr(attrs[i].value, 0, 0, INT_MAX).ok

TextA == Encode(<<"A">>)
TextNL == Encode(<<"NL">>)

N_(type, name, attrs, children, content) ==
    [type |-> type, name |-> name, attrs |-> attrs, children |-> children,
     content |-> content]

\* the child nodes of a p element, but for their place in it
NodeShapes ==
    {N_("text", "text", <<>>, FALSE, TextA),
     N_("text", "text", <<>>, FALSE, TextNL),
     N_("text", "text", <<>>, FALSE, Encode(<<"ZW", "SP", "ZW">>)),
     N_("element", "s", <<>>, TRUE, TextA),
     N_("element", "s", <<A_("p", <<"0">>)>>, TRUE, TextA),
     N_("element", "s", <<A_("p", <<"0">>)>>, TRUE, TextNL),
     N_("element", "s", <<A_("p", <<"1">>)>>, TRUE, Encode(<<"A", "ZW">>)),
     N_("element", "s", <<A_("p", <<"7">>)>>, TRUE, TextA),
     N_("element", "s", <<A_("zz", <<"1">>), A_("p", <<"x">>)>>, TRUE, TextA),
     N_("element", "s", <<A_("p", <<"0">>)>>, FALSE, <<>>),
     N_("element", "br", <<>>, FALSE, <<>>),
     N_("comment", "comment", <<>>, FALSE, TextA)}

\* the node of this shape; last is whether node->next is NULL
NodeOf(shape, last) ==
    [type |-> shape.type, name |-> shape.name, attrs |-> shape.attrs,
     children |-> shape.children, content |-> shape.content, last |-> last]

Init ==
    /\ pc = "open"
    /\ ret = 0
    /\ pens = <<>>
    /\ wps = <<>>
    /\ element = NoElement
    /\ node = NoNode
    /\ event = NoEvent
    /\ event_pen = NULL
    /\ textbuf = <<>>
    /\ lastlen = 0
    /\ start = <<>>
    /\ duration = <<>>
    /\ q = <<>>
    /\ ctx_segments = <<>>
    /\ freed = NoneFreed
    /\ log = <<>>
    /\ count = NoCount
    /\ IdleClean
    /\ IdlePen
    /\ IdleDec

LocalsGone ==
    /\ element' = NoElement
    /\ node' = NoNode
    /\ event' = NoEvent
    /\ event_pen' = NULL
    /\ textbuf' = <<>>
    /\ lastlen' = 0
    /\ start' = <<>>
    /\ duration' = <<>>

\* srv3_read_header up to the head loop: the document is read and parsed,
\* and the pen list starts as the default pen alone.
OpenDocument ==
    /\ pc = "open"
    /\ pc' = "head"
    /\ pens' = <<srv3_default_pen>>
    /\ UNCHANGED <<ret, wps, element, node, event, event_pen, textbuf,
                   lastlen, start, duration, q, log, count>>
    /\ UNCHANGED <<cleanVars, penVars, closeVars, decVars>>

\* ... or the stream cannot be made or the document cannot be read
OpenFails ==
    /\ pc = "open"
    /\ pc' = "done"
    /\ ret' \in {AVERROR(ENOMEM), AVERROR_INVALIDDATA}
    /\ UNCHANGED <<pens, wps, element, node, event, event_pen, textbuf,
                   lastlen, start, duration, q, log, count>>
    /\ UNCHANGED <<cleanVars, penVars, closeVars, decVars>>

\* the pen element with these attributes has been read: r is the list and
\* the warnings srv3_read_pen leaves
PenElementRead(attrs, r) ==
    /\ pens' = r.list
    /\ log' = r.log
    /\ element' = [name |-> "pen", attrs |-> attrs]

\* srv3_read_pens at a pen element
ReadPen ==
    /\ pc = "head"
    /\ Len(pens) - 1 < MaxPens
    /\ \E attrs \in PenElements :
          PenElementRead(attrs, srv3_read_pen(pens, FreshPenAddr, attrs))
    /\ count' = [count EXCEPT !.pens = @ + 1]
    /\ UNCHANGED <<pc, ret, wps, node, event, event_pen, textbuf, lastlen,
                   start, duration, q>>
    /\ UNCHANGED <<cleanVars, penVars, closeVars, decVars>>

WpElementRead(attrs, r) ==
    /\ wps' = r.list
    /\ log' = r.log
    /\ element' = [name |-> "wp", attrs |-> attrs]

\* srv3_read_pens at a wp element
ReadWindowPos ==
    /\ pc = "head"
    /\ Len(wps) < MaxWps
    /\ \E attrs \in WpElements :
          WpElementRead(attrs, srv3_read_window_pos(wps, FreshWpAddr, attrs))
    /\ UNCHANGED <<pc, ret, pens, node, event, event_pen, textbuf, lastlen,
                   start, duration, q, count>>
    /\ UNCHANGED <<cleanVars, penVars, closeVars, decVars>>

\* srv3_read_pens at a child that is neither
SkipHeadChild ==
    /\ pc = "head"
    /\ element' = [name |-> "other", attrs |-> <<>>]
    /\ log' = <<>>
    /\ UNCHANGED <<pc, ret, pens, wps, node, event, event_pen, textbuf,
                   lastlen, start, duration, q, count>>
    /\ UNCHANGED <<cleanVars, penVars, closeVars, decVars>>

\* the av_malloc of srv3_read_pen or srv3_read_window_pos fails
HeadAllocFails ==
    /\ pc = "head"
    /\ pc' = "done"
    /\ ret' = AVERROR(ENOMEM)
    /\ LocalsGone
    /\ log' = <<>>
    /\ UNCHANGED <<pens, wps, q, count>>
    /\ UNCHANGED <<cleanVars, penVars, closeVars, decVars>>

\* the head loop ends and srv3_read_body starts
EndHead ==
    /\ pc = "head"
    /\ pc' = "body"
    /\ element' = NoElement
    /\ log' = <<>>
    /\ UNCHANGED <<ret, pens, wps, node, event, event_pen, textbuf, lastlen,
                   start, duration, q, count>>
    /\ UNCHANGED <<cleanVars, penVars, closeVars, decVars>>

\* the locals of srv3_read_body as a p element is entered
ParagraphLocals ==
    [start |-> start, duration |-> duration, wp |-> NULL,
     event_pen |-> DefaultPenAddr, log |-> <<>>]

\* the p element with these properties has been entered: st is what the
\* loop over them made of the locals; empty is whether it has no child
ParagraphEntered(attrs, empty, st) ==
    /\ pc' = IF empty THEN "commit" ELSE "nodes"
    /\ element' = [name |-> "p", attrs |-> attrs, idx |-> count.elems + 1,
                   bytes |-> <<>>]
    /\ event' = [segments |-> <<>>, wp |-> st.wp]
    /\ event_pen' = st.event_pen
    /\ start' = st.start
    /\ duration' = st.duration
    /\ log' = st.log

\* srv3_read_body at a p element: the event is allocated and the element's
\* properties are read
BeginParagraph ==
    /\ pc = "body"
    /\ count.elems < MaxElems
    /\ \E attrs \in ParagraphElements, empty \in BOOLEAN :
       \E garbage \in (IF ReadsGarbageId(attrs) THEN Garbage ELSE {0}) :
          ParagraphEntered(attrs, empty,
                           EventAttrs(ParagraphLocals, attrs, pens, wps, garbage))
    /\ node' = NoNode
    /\ lastlen' = 0
    /\ count' = [count EXCEPT !.elems = @ + 1, !.paras = @ + 1]
    /\ UNCHANGED <<ret, pens, wps, textbuf, q>>
    /\ UNCHANGED <<cleanVars, penVars, closeVars, decVars>>

\* srv3_read_body at a child that is no p element
SkipBodyChild ==
    /\ pc = "body"
    /\ count.elems < MaxElems
    /\ element' = [name |-> "other", attrs |-> <<>>, idx |-> count.elems + 1,
                   bytes |-> <<>>]
    /\ count' = [count EXCEPT !.elems = @ + 1]
    /\ log' = <<>>
    /\ UNCHANGED <<pc, ret, pens, wps, node, event, event_pen, textbuf,
                   lastlen, start, duration, q>>
    /\ UNCHANGED <<cleanVars, penVars, closeVars, decVars>>

\* the node n has been read: r is what the turn of the loop made of the
\* event, the buffer and lastlen.  element.bytes keeps what was appended to
\* the buffer for this paragraph.
NodeRead(n, r) ==
    /\ node' = n
    /\ event' = r.event
    /\ textbuf' = r.textbuf
    /\ lastlen' = r.lastlen
    /\ log' = r.log
    /\ element' = [element EXCEPT !.bytes =
                      @ \o Slice(r.textbuf, Len(textbuf) + 1, Len(r.textbuf))]
    /\ pc' = IF n.last THEN "commit" ELSE "nodes"

\* the locals the loop over the children works on
NodeLocals == [event |-> event, textbuf |-> textbuf, lastlen |-> lastlen]

\* one turn of the loop over the paragraph's children
ReadNode ==
    /\ pc = "nodes"
    /\ count.nodes < MaxNodes
    /\ \E shape \in NodeShapes, last \in BOOLEAN :
          NodeRead(NodeOf(shape, last),
                   NodeResult(NodeLocals, event_pen, NodeOf(shape, last), pens))
    /\ count' = [count EXCEPT !.nodes = @ + 1]
    /\ UNCHANGED <<ret, pens, wps, event_pen, start, duration, q>>
    /\ UNCHANGED <<cleanVars, penVars, closeVars, decVars>>

\* the packet ff_subtitles_queue_insert makes of the buffer, with the pts,
\* the duration and the side data srv3_read_body gives it; src, attrs and
\* bytes keep the element it was made for
Packet(buf, pts, dur, ev, el) ==
    [data |-> buf, pts |-> pts, duration |-> dur, event |-> ev,
     src |-> el.idx, attrs |-> el.attrs, bytes |-> el.bytes]

\* the packets the commit may queue: start and duration are read, assigned
\* or not
Packets ==
    {Packet(textbuf, pts, dur, event, element) :
        pts \in (IF start = <<>> THEN Garbage ELSE {start[1]}),
        dur \in (IF duration = <<>> THEN Garbage ELSE {duration[1]})}

\* the buffer after the paragraph is committed
ClearedNot(buf) == buf
Cleared(buf) == <<>>

\* ctx->segments with the event's segment list linked in at its head
LinkSegments(lists, list) == <<list>> \o lists

\* the end of the paragraph: its segment list is linked into ctx->segments,
\* its text is queued with the event as side data, and the buffer is cleared
CommitParagraph ==
    /\ pc = "commit"
    /\ ctx_segments' = LinkSegments(ctx_segments, event.segments)
    /\ \E pkt \in Packets : q' = Append(q, pkt)
    /\ textbuf' = Cleared(textbuf)
    /\ pc' = "body"
    /\ log' = <<>>
    /\ node' = NoNode
    /\ UNCHANGED <<ret, pens, wps, element, event, event_pen, lastlen,
                   start, duration, count, freed>>
    /\ UNCHANGED <<cleanVars, penVars, decVars>>

\* an allocation of srv3_read_body fails: the event, a segment, the text
\* buffer, the segment list record, the packet (the segment list is linked
\* in by then) or its side data (the packet is queued by then)
BodyAllocFails ==
    /\ pc \in {"body", "nodes", "commit"}
    /\ pc = "body" => count.elems < MaxElems
    /\ pc = "nodes" => count.nodes < MaxNodes
    /\ pc' = "done"
    /\ ret' = AVERROR(ENOMEM)
    /\ \/ q' = q /\ ctx_segments' = ctx_segments
       \/ /\ pc = "commit"
          /\ ctx_segments' = LinkSegments(ctx_segments, event.segments)
          /\ \/ q' = q
             \/ \E pkt \in Packets :
                   q' = Append(q, [pkt EXCEPT !.event = NoEvent])
    /\ LocalsGone
    /\ log' = <<>>
    /\ UNCHANGED <<pens, wps, count, freed>>
    /\ UNCHANGED <<cleanVars, penVars, decVars>>

\* the body loop ends: srv3_read_header returns 0
EndBody ==
    /\ pc = "body"
    /\ pc' = "done"
    /\ LocalsGone
    /\ log' = <<>>
    /\ UNCHANGED <<ret, pens, wps, q, count>>
    /\ UNCHANGED <<cleanVars, penVars, closeVars, decVars>>

\* FREE_LIST: the addresses passed to av_free, in order, as the loop walks
\* the list from its i-th entry; current is NULL past the last
RECURSIVE FreeListFrom(_, _, _)
FreeListFrom(list, i, until) ==
    IF i > Len(list) THEN <<>>
    ELSE IF list[i].addr = NULL \/ list[i].addr = until THEN <<>>
    ELSE <<list[i].addr>> \o FreeListFrom(list, i + 1, until)

FREE_LIST(list, until) == FreeListFrom(list, 1, until)

\* FREE_LIST(SRV3Pen, ctx->pens, &srv3_default_pen)
FreePensToNull(list) == FREE_LIST(list, NULL)
FreePens(list) == FREE_LIST(list, DefaultPenAddr)

\* FREE_LIST(SRV3WindowPos, ctx->wps, NULL)
FreeWindowPositions(list) == FREE_LIST(list, NULL)

\* srv3_free_context_data: the pens up to the default pen, the window
\* positions, and the segments of every list of ctx->segments
srv3_free_context_data ==
    [pens |-> FreePens(pens), wps |-> FreeWindowPositions(wps),
     segments |-> ctx_segments]

\* srv3_read_close, after srv3_read_header has returned (with an error or
\* not): the queue is emptied and the context's lists are freed
Close ==
    /\ pc = "done"
    /\ pc' = "closed"
    /\ q' = <<>>
    /\ freed' = srv3_free_context_data
    /\ UNCHANGED <<ret, pens, wps, element, node, event, event_pen, textbuf,
                   lastlen, start, duration, ctx_segments, log, count>>
    /\ UNCHANGED <<cleanVars, penVars, decVars>>

Next ==
    \/ OpenDocument
    \/ OpenFails
    \/ ReadPen
    \/ ReadWindowPos
    \/ SkipHeadChild
    \/ HeadAllocFails
    \/ EndHead
    \/ BeginParagraph
    \/ SkipBodyChild
    \/ ReadNode
    \/ CommitParagraph
    \/ BodyAllocFails
    \/ EndBody
    \/ Close

Spec == Init /\ [][Next]_vars

---------------------------------------------------------------------------
(* SpecClean: srv3_clean_segment_text applied to a buffer, again and again *)

\* the sequences over S of length at most n
RECURSIVE SeqsUpTo(_, _)
SeqsUpTo(S, n) ==
    IF n = 0 THEN {<<>>}
    ELSE SeqsUpTo(S, n - 1) \cup
         {Append(s, x) : s \in {t \in SeqsUpTo(S, n - 1) : Len(t) = n - 1}, x \in S}

InitClean ==
    /\ IdleDoc
    /\ IdlePen
    /\ IdleDec
    /\ text \in {Encode(cps) : cps \in SeqsUpTo(CodePoints, MaxLen)}
    /\ textlen = 0
    /\ calls = <<>>

\* One call: text is cleaned in place.
Clean ==
    /\ Len(calls) < 2
    /\ text' = srv3_clean_segment_text(text)
    /\ textlen' = Len(text')
    /\ calls' = Append(calls, [in |-> text, out |-> text', ret |-> textlen'])
    /\ UNCHANGED <<docVars, penVars, decVars>>

NextClean == Clean

SpecClean == InitClean /\ [][NextClean]_vars

\* C1: cleaning an already cleaned text changes neither the text nor the
\* length returned: clean(clean(x)) = clean(x).
C1_CleanIdempotent ==
    Len(calls) = 2 =>
        /\ calls[2].out = calls[1].out
        /\ calls[2].ret = calls[1].ret

\* C2: the output of srv3_clean_segment_text holds no zero-width marker.
C2_NoMarkerLeft ==
    Len(calls) >= 1 => ~HasMarker(calls[1].out)

---------------------------------------------------------------------------
(* SpecPen: srv3_read_pen on one pen element, an attribute a step.         *)

PenAttrNames == DOMAIN PenAttrTable \cup {"i", "b", "zz"}

\* The attribute values drawn.  libxml gives an attribute with an empty
\* value no child node, so the empty text is not among them.
AttrTexts ==
    {<<"0">>, <<"1">>, <<"3">>, <<"8">>, <<"-", "1">>, <<"2", "5", "6">>,
     <<"1", "x">>, <<"#", "f", "F">>, <<" ", "5">>,
     <<"1", "0", "0", "0", "0", "0", "0">>}

InitPen ==
    /\ IdleDoc
    /\ IdleClean
    /\ IdleDec
    /\ pen = srv3_default_pen
    /\ attr = [name |-> "none"]
    /\ seen = {}

\* the attribute a has been read: r is what the turn of the loop made of pen
PenAttrRead(a, r) ==
    /\ pen' = r.pen
    /\ attr' = [name |-> a.name, value |-> a.value, before |-> pen,
                ret |-> r.ret]
    /\ seen' = seen \cup {a.name}

ReadPenAttr ==
    /\ Cardinality(seen) < MaxAttrs
    /\ \E name \in PenAttrNames \ seen, value \in AttrTexts :
          PenAttrRead(A_(name, value), ApplyPenAttr(pen, A_(name, value)))
    /\ UNCHANGED <<docVars, cleanVars, decVars>>

NextPen == ReadPenAttr

SpecPen == InitPen /\ [][NextPen]_vars

\* the text and base srv3_parse_numeric_value is called with for the
\* attribute last read
AttrDigits ==
    IF PenAttrTable[attr.name].kind = "color" THEN ColorDigits(attr.value)
    ELSE attr.value
AttrParsed ==
    strtol(AttrDigits,
           IF PenAttrTable[attr.name].kind = "color" THEN 16 ELSE 10)
AttrOutOfRange ==
    /\ attr.name \in DOMAIN PenAttrTable
    /\ AttrParsed.endptr > Len(AttrDigits)
    /\ \/ AttrParsed.parsed < PenAttrTable[attr.name].min
       \/ AttrParsed.parsed > PenAttrTable[attr.name].max

\* C8: an attribute whose text parses to an integer outside [min, max] makes
\* srv3_parse_numeric_value return an error, and the field it was to store
\* keeps the value it had before the call.
C8_OutOfRangeKeepsField ==
    AttrOutOfRange =>
        /\ attr.ret = AVERROR(ERANGE)
        /\ pen[PenAttrTable[attr.name].field] =
               attr.before[PenAttrTable[attr.name].field]

\* an out-of-range foreground alpha was read and the field still holds the
\* default pen's 254
C8_Witness ==
    /\ AttrOutOfRange
    /\ attr.name = "fo"
    /\ attr.value = <<"2", "5", "6">>
    /\ pen.foreground_alpha = 254
    /\ attr.ret < 0

---------------------------------------------------------------------------
(* Properties of Spec.                                                     *)

HasAttr(attrs, name) == \E i \in 1 .. Len(attrs) : attrs[i].name = name

AttrText(attrs, name) ==
    attrs[CHOOSE i \in 1 .. Len(attrs) : attrs[i].name = name].value

\* the property is there and its text is a number an id may be
NamesId(attrs, name) ==
    /\ HasAttr(attrs, name)
    /\ strtol(AttrText(attrs, name), 10).endptr > Len(AttrText(attrs, name))
    /\ strtol(AttrText(attrs, name), 10).parsed \in 0 .. INT_MAX

IdNamed(attrs, name) == strtol(AttrText(attrs, name), 10).parsed

\* the pens declared with this id, and the one declared last: allocations
\* are numbered in their order
DeclaredPens(id) == {i \in 1 .. Len(pens) : pens[i].id = id /\ pens[i].addr # DefaultPenAddr}

LatestPen(id) ==
    IF DeclaredPens(id) = {} THEN NULL
    ELSE pens[CHOOSE i \in DeclaredPens(id) :
                \A j \in DeclaredPens(id) : pens[j].addr <= pens[i].addr].addr

WpDeclared(id) == \E i \in 1 .. Len(wps) : wps[i].id = id

\* the p element's properties have just been read
AfterBegin == pc \in {"nodes", "commit"} /\ node.type = "none"

\* a child node has just been read
AfterNode == pc \in {"nodes", "commit"} /\ node.type # "none"

\* the paragraph has just been committed
AfterCommit == pc = "body" /\ element.name = "p"

\* the node just read is one a segment was linked in for
NodeEmits ==
    /\ AfterNode
    /\ ~NodeSkipped(node)
    /\ srv3_clean_segment_text(node.content) # <<>>
    /\ ~OnlyNewlines(srv3_clean_segment_text(node.content))

SegmentOfNode == event.segments[Len(event.segments)]

Warned(msg, id) ==
    \E i \in 1 .. Len(log) : log[i].msg = msg /\ log[i].value = id

\* the p property names a pen that was, or was not, declared
PenResolves(attrs) == NamesId(attrs, "p") /\ LatestPen(IdNamed(attrs, "p")) # NULL
PenDangles(attrs) == NamesId(attrs, "p") /\ LatestPen(IdNamed(attrs, "p")) = NULL

\* the pen the paragraph's properties give its segments
ParagraphPen ==
    IF PenResolves(element.attrs) THEN LatestPen(IdNamed(element.attrs, "p"))
    ELSE DefaultPenAddr

\* the node n is not passed over and its cleaned text is newlines only
NewlineOnly(n) ==
    /\ ~NodeSkipped(n)
    /\ srv3_clean_segment_text(n.content) # <<>>
    /\ OnlyNewlines(srv3_clean_segment_text(n.content))

\* C3: a newline-only node that has a previous segment of another font size
\* and is not the last node of the paragraph leaves the previous segment's
\* size as it is, and its bytes to the next segment.
C3_FoldOnlySameSizeOrLast ==
    [][(/\ pc = "nodes"
        /\ node'.type # "none"
        /\ NewlineOnly(node')
        /\ ~node'.last
        /\ event.segments # <<>>
        /\ PenAt(pens, event.segments[Len(event.segments)].pen).font_size #
              PenAt(pens, SegmentPen(event_pen, node', pens).pen).font_size)
       => /\ event'.segments = event.segments
          /\ lastlen' = lastlen]_vars

\* C4 as claimed: a p property naming an undeclared pen binds the segment
\* to the default pen, with a warning naming the id, also for an s node in
\* a paragraph whose own p resolved.
C4_DanglingPenGetsDefault ==
    /\ (AfterBegin /\ PenDangles(element.attrs)) =>
          /\ event_pen = DefaultPenAddr
          /\ Warned("Non-existent pen assigned to event",
                    IdNamed(element.attrs, "p"))
    /\ (NodeEmits /\ node.type = "element" /\ PenDangles(node.attrs)) =>
          /\ SegmentOfNode.pen = DefaultPenAddr
          /\ Warned("Non-existent pen assigned to segment",
                    IdNamed(node.attrs, "p"))

\* C4 as amended: a paragraph's p naming an undeclared pen leaves the
\* paragraph on the default pen; an s node's p naming an undeclared pen
\* leaves the segment on the paragraph's pen, which is the default pen only
\* if the paragraph's own p is absent or did not resolve.  Either way a
\* warning names the id.
C4_DanglingPenFallsBack ==
    /\ (AfterBegin /\ PenDangles(element.attrs)) =>
          /\ event_pen = DefaultPenAddr
          /\ Warned("Non-existent pen assigned to event",
                    IdNamed(element.attrs, "p"))
    /\ (NodeEmits /\ node.type = "element" /\ PenDangles(node.attrs)) =>
          /\ SegmentOfNode.pen = ParagraphPen
          /\ Warned("Non-existent pen assigned to segment",
                    IdNamed(node.attrs, "p"))

\* an s node naming an undeclared pen, in a paragraph whose p resolved, got
\* the paragraph's pen
C4_Witness ==
    /\ NodeEmits
    /\ node.type = "element"
    /\ PenDangles(node.attrs)
    /\ PenResolves(element.attrs)
    /\ SegmentOfNode.pen = ParagraphPen
    /\ SegmentOfNode.pen # DefaultPenAddr
    /\ Warned("Non-existent pen assigned to segment", 7)

\* the wp property names a window position that was not declared
WpDangles(attrs) == NamesId(attrs, "wp") /\ ~WpDeclared(IdNamed(attrs, "wp"))

\* the items queued for the element the loop is at
ItemsOfElement == {i \in 1 .. Len(q) : q[i].src = element.idx}

\* C5: a paragraph whose wp names an undeclared window position has
\* event.wp NULL and a warning naming the id, and once it is committed one
\* item is queued for it, with that event, and no error is returned.
C5_DanglingWpStillOneEvent ==
    (element.name = "p" /\ WpDangles(element.attrs)) =>
        /\ event.wp = NULL
        /\ AfterBegin =>
              Warned("Non-existent window pos assigned to event",
                     IdNamed(element.attrs, "wp"))
        /\ pc \in {"nodes", "commit"} => ItemsOfElement = {}
        /\ AfterCommit =>
              /\ ret = 0
              /\ ItemsOfElement = {Len(q)}
              /\ q[Len(q)].event.wp = NULL
              /\ q[Len(q)].event = event

\* a paragraph naming window position 7 was committed though the head
\* declares a window position
C5_Witness ==
    /\ AfterCommit
    /\ WpDangles(element.attrs)
    /\ IdNamed(element.attrs, "wp") = 7
    /\ wps # <<>>
    /\ ItemsOfElement = {Len(q)}
    /\ q[Len(q)].event.wp = NULL
    /\ ret = 0

\* the ids the elements of the model name
PenIds == {0, 1, 7}

\* C6: srv3_get_pen returns the pen declared last with the id, and so do
\* the lookups of a paragraph's and of an s node's p property.
C6_LookupFindsLatestPen ==
    /\ \A id \in PenIds : srv3_get_pen(pens, id) = LatestPen(id)
    /\ (AfterBegin /\ PenResolves(element.attrs)) =>
          event_pen = LatestPen(IdNamed(element.attrs, "p"))
    /\ (NodeEmits /\ node.type = "element" /\ PenResolves(node.attrs)) =>
          SegmentOfNode.pen = LatestPen(IdNamed(node.attrs, "p"))

\* two pens were declared with id 0, they differ, and a paragraph naming
\* pen 0 got the second
C6_Witness ==
    /\ Cardinality(DeclaredPens(0)) = 2
    /\ PenAt(pens, DefaultPenAddr + 1).font_size = 200
    /\ PenAt(pens, DefaultPenAddr + 2).font_size = 100
    /\ AfterBegin
    /\ PenResolves(element.attrs)
    /\ IdNamed(element.attrs, "p") = 0
    /\ event_pen = DefaultPenAddr + 2

PenAddrs == {pens[i].addr : i \in 1 .. Len(pens)} \cup {DefaultPenAddr}
WpAddrs == {wps[i].addr : i \in 1 .. Len(wps)}

EventResolves(ev) ==
    /\ \A i \in 1 .. Len(ev.segments) : ev.segments[i].pen \in PenAddrs
    /\ ev.wp # NULL => ev.wp \in WpAddrs

\* C7: the pen of every segment is the default pen or a pen of the list,
\* and the window position of every event is NULL or one of the list.
C7_ReferencesResolve ==
    /\ EventResolves(event)
    /\ \A i \in 1 .. Len(q) : EventResolves(q[i].event)

\* a paragraph whose wp and p are no numbers holds a window position of the
\* list (the uninitialised id happened to name it), and a segment with a
\* declared pen
C7_Witness ==
    /\ AfterNode
    /\ HasAttr(element.attrs, "wp")
    /\ ~NamesId(element.attrs, "wp")
    /\ ~NamesId(element.attrs, "p")
    /\ event.wp \in WpAddrs
    /\ event.segments # <<>>
    /\ event.segments[1].pen \in PenAddrs \ {DefaultPenAddr}

\* C9: a segment of an s node whose p resolves has that pen; a segment of a
\* text node or of an s node without p has the paragraph's pen if the
\* paragraph's p resolved, and the default pen otherwise.
C9_SegmentPenResolution ==
    NodeEmits =>
        /\ (node.type = "element" /\ PenResolves(node.attrs)) =>
              SegmentOfNode.pen = LatestPen(IdNamed(node.attrs, "p"))
        /\ (node.type = "text" \/ ~HasAttr(node.attrs, "p")) =>
              /\ PenResolves(element.attrs) =>
                    SegmentOfNode.pen = LatestPen(IdNamed(element.attrs, "p"))
              /\ ~PenResolves(element.attrs) =>
                    SegmentOfNode.pen = DefaultPenAddr

\* in a paragraph on pen 0 a text node got pen 0, after an s node naming
\* pen 1 got pen 1
C9_Witness ==
    /\ NodeEmits
    /\ node.type = "text"
    /\ PenResolves(element.attrs)
    /\ Len(event.segments) = 2
    /\ event.segments[1].pen = LatestPen(1)
    /\ event.segments[2].pen = LatestPen(0)
    /\ LatestPen(0) \notin {NULL, LatestPen(1)}

\* C10: one item is queued for each p element, in document order, and its
\* text is what was appended to the buffer for that element.
C10_OneItemPerParagraph ==
    /\ \A i \in 1 .. Len(q) : q[i].data = q[i].bytes
    /\ \A i, j \in 1 .. Len(q) : i < j => q[i].src < q[j].src
    /\ (pc = "body" \/ (pc = "done" /\ ret = 0)) => Len(q) = count.paras
    /\ pc \in {"nodes", "commit"} => Len(q) = count.paras - 1
    /\ AfterCommit => q[Len(q)].src = element.idx

\* two paragraphs with different texts were queued and srv3_read_body
\* returned 0
C10_Witness ==
    /\ pc = "done"
    /\ ret = 0
    /\ Len(q) = 2
    /\ q[1].data # <<>>
    /\ q[2].data # <<>>
    /\ q[1].data # q[2].data

\* the items up to the i-th whose paragraph set the property successfully
Setters(i, name) == {j \in 1 .. i : NamesId(q[j].attrs, name)}

\* the value the last of them set
LastSet(i, name) ==
    IdNamed(q[CHOOSE j \in Setters(i, name) :
                 \A k \in Setters(i, name) : k <= j].attrs, name)

\* C11: an item carries the start and the duration of the most recent
\* paragraph, its own included, whose t and d passed validation.
C11_TimesCarryOver ==
    \A i \in 1 .. Len(q) :
        /\ Setters(i, "t") # {} => q[i].pts = LastSet(i, "t")
        /\ Setters(i, "d") # {} => q[i].duration = LastSet(i, "d")

\* a paragraph whose t is no number and whose d is out of range was queued
\* with the 9 and the 3 of the paragraph before it
C11_Witness ==
    /\ Len(q) = 2
    /\ NamesId(q[1].attrs, "t")
    /\ IdNamed(q[1].attrs, "t") = 9
    /\ HasAttr(q[2].attrs, "t") /\ ~NamesId(q[2].attrs, "t")
    /\ HasAttr(q[2].attrs, "d") /\ ~NamesId(q[2].attrs, "d")
    /\ q[2].pts = 9
    /\ q[2].duration = 3
    /\ q[1].pts = 9

\* the pens srv3_read_pen has allocated
AllocatedPens == {DefaultPenAddr + k : k \in 1 .. count.pens}

TimesFreed(a) == Cardinality({i \in 1 .. Len(freed.pens) : freed.pens[i] = a})

\* C12: the default pen is the last pen of the list and no other, and
\* srv3_free_context_data frees every pen srv3_read_pen allocated once and
\* the default pen never, however far srv3_read_header got.
C12_PensFreedOnce ==
    /\ pens # <<>> =>
          \A i \in 1 .. Len(pens) :
              (pens[i].addr = DefaultPenAddr) <=> (i = Len(pens))
    /\ pens = <<>> => count.pens = 0
    /\ pc # "closed" => freed = NoneFreed
    /\ pc = "closed" =>
          /\ \A a \in AllocatedPens : TimesFreed(a) = 1
          /\ \A i \in 1 .. Len(freed.pens) : freed.pens[i] \in AllocatedPens
          /\ TimesFreed(DefaultPenAddr) = 0

\* srv3_read_header failed in the head after two pens, and both were freed
C12_Witness ==
    /\ pc = "closed"
    /\ ret = AVERROR(ENOMEM)
    /\ count.pens = 2
    /\ count.elems = 0
    /\ Len(freed.pens) = 2
    /\ TimesFreed(DefaultPenAddr + 1) = 1
    /\ TimesFreed(DefaultPenAddr + 2) = 1

---------------------------------------------------------------------------
(* SpecStyle: srv3_decoder_init, a pen of the head a step.  An int is a    *)
(* signed 32-bit number.                                                   *)

\* the k-th byte of a 32-bit word, the lowest being byte 0
ByteOf(w, k) == (w \div (256 ^ k)) % 256

\* RGB2BGR: the red and the blue byte of a 24-bit colour change places
RGB2BGR(color) ==
    ByteOf(color, 0) * 65536 + ByteOf(color, 1) * 256 + ByteOf(color, 2)

\* n << 24 for n in 0 .. 255, as the int the compilers make of it: bit 7 of
\* n becomes the sign
Shl24(n) == IF n >= 128 THEN (n - 256) * 16777216 ELSE n * 16777216

\* RGB2ASS: the colour's bytes swapped, with 0xFF - alpha as the high byte.
\* The colour has no bit above the 24th, so | adds.
RGB2ASS(color, alpha) == RGB2BGR(color) + Shl24(255 - alpha)

\* ASSBOOL
ASSBOOL(value) == IF value > 0 THEN -1 ELSE 0

\* attrs & flag, for a flag of one bit
BitAnd(a, flag) == IF (a \div flag) % 2 = 1 THEN flag ELSE 0

srv3_font_style_to_font_name(font_style) ==
    CASE font_style = 1 -> "Courier New"
      [] font_style = 2 -> "Times New Roman"
      [] font_style = 3 -> "Lucida Console"
      [] font_style = 4 -> "Comic Sans Ms"
      [] font_style = 6 -> "Monotype Corsiva"
      [] font_style = 7 -> "Carrois Gothic Sc"
      [] OTHER -> "Roboto"

BASE_FONT_SIZE == 38

\* srv3_font_size_to_ass, as the exact fraction the float is rounded from
srv3_font_size_to_ass(size) ==
    [num |-> BASE_FONT_SIZE * (300 + size), den |-> 400]

\* the argument given for OutlineColour and again for BackColour
BoxColourForegroundAlpha(p) ==
    IF p.background_alpha > 0
    THEN RGB2ASS(p.background_color, p.foreground_alpha)
    ELSE RGB2ASS(p.edge_color, p.foreground_alpha)
BoxColour(p) ==
    IF p.background_alpha > 0
    THEN RGB2ASS(p.background_color, p.background_alpha)
    ELSE RGB2ASS(p.edge_color, p.foreground_alpha)

\* the Style line written for pen p
StyleRecord(p) ==
    [name |-> p.id + 1,
     fontname |-> srv3_font_style_to_font_name(p.font_style),
     fontsize |-> srv3_font_size_to_ass(p.font_size),
     primary |-> RGB2ASS(p.foreground_color, p.foreground_alpha),
     outline |-> BoxColour(p),
     back |-> BoxColour(p),
     bold |-> ASSBOOL(BitAnd(p.attrs, SRV3_PEN_ATTR_BOLD)),
     italic |-> ASSBOOL(BitAnd(p.attrs, SRV3_PEN_ATTR_ITALIC)),
     border_style |-> IF p.background_alpha > 0 THEN 3
                      ELSE IF p.edge_type > 0 THEN 1 ELSE 0,
     outline_width |-> IF p.background_alpha > 0 THEN 1 ELSE 0]

\* the colours and the alphas of the pens drawn
StyleColors == {0, 1193046, 16777215}
StyleAlphas == {0, 1, 127, 128, 192, 254, 255}

\* the pens a head may hold above the default pen
StylePens ==
    {[srv3_default_pen EXCEPT
          !.addr = DefaultPenAddr + 1, !.id = 0, !.attrs = at,
          !.edge_type = et, !.edge_color = ec,
          !.foreground_alpha = fo,
          !.background_color = bc, !.background_alpha = bo] :
       at \in {0, SRV3_PEN_ATTR_BOLD}, et \in {0, 3}, ec \in StyleColors,
       fo \in StyleAlphas, bc \in StyleColors, bo \in StyleAlphas}

InitStyle ==
    /\ IdleDoc
    /\ IdleClean
    /\ IdlePen
    /\ IdlePos
    /\ IdleCoord
    /\ head \in {<<srv3_default_pen>>} \cup
                {<<p, srv3_default_pen>> : p \in StylePens}
    /\ subtitle_header = <<>>

\* one turn of the loop over head->pens
EmitStyle ==
    /\ Len(subtitle_header) < Len(head)
    /\ subtitle_header' =
           Append(subtitle_header, StyleRecord(head[Len(subtitle_header) + 1]))
    /\ UNCHANGED <<docVars, cleanVars, penVars, head, posVars, coordVars>>

NextStyle == EmitStyle

SpecStyle == InitStyle /\ [][NextStyle]_vars

\* the colour and the alpha the box of pen p is drawn with
BoxSource(p) ==
    IF p.background_alpha > 0
    THEN [color |-> p.background_color, alpha |-> p.background_alpha]
    ELSE [color |-> p.edge_color, alpha |-> p.foreground_alpha]

\* w carries the red, green and blue of color in its bytes 0, 1 and 2
Swapped(w, color) ==
    /\ ByteOf(w, 0) = (color \div 65536) % 256
    /\ ByteOf(w, 1) = (color \div 256) % 256
    /\ ByteOf(w, 2) = color % 256

\* The claim as stated: outline and back colour are equal, carry the
\* swapped background colour when the background alpha is positive and the
\* swapped edge colour otherwise, and have 0xFF minus the foreground alpha
\* as their high byte in both cases.
C13_BoxAlphaIsForeground ==
    \A i \in 1 .. Len(subtitle_header) :
        /\ subtitle_header[i].outline = subtitle_header[i].back
        /\ Swapped(subtitle_header[i].outline, BoxSource(head[i]).color)
        /\ ByteOf(subtitle_header[i].outline, 3) =
               255 - head[i].foreground_alpha

\* C13 (amended): outline and back colour are equal and carry the swapped
\* background colour under 0xFF minus the background alpha when the
\* background alpha is positive, and the swapped edge colour under 0xFF
\* minus the foreground alpha otherwise.
C13_BoxAlphaFollowsColour ==
    \A i \in 1 .. Len(subtitle_header) :
        /\ subtitle_header[i].outline = subtitle_header[i].back
        /\ Swapped(subtitle_header[i].outline, BoxSource(head[i]).color)
        /\ ByteOf(subtitle_header[i].outline, 3) =
               255 - BoxSource(head[i]).alpha

\* a style was emitted for a pen whose background alpha, 192, is not its
\* foreground alpha, 1: the box colours carry 0xFF - 192
C13_Witness ==
    /\ Len(subtitle_header) = 2
    /\ head[1].background_alpha = 192
    /\ head[1].foreground_alpha = 1
    /\ head[1].background_color = 1193046
    /\ ByteOf(subtitle_header[1].outline, 3) = 63
    /\ subtitle_header[1].outline = subtitle_header[1].back

---------------------------------------------------------------------------
(* SpecPosition: srv3_position_event, an event a step.                     *)

PLAY_RES_X == 1280
PLAY_RES_Y == 720

srv3_point_to_ass_alignment_from_7(point) ==
    IF point > 6 THEN point - 5
    ELSE IF point < 3 THEN point + 7
    ELSE point + 1
srv3_point_to_ass_alignment(point) ==
    IF point >= 6 THEN point - 5
    ELSE IF point < 3 THEN point + 7
    ELSE point + 1

\* srv3_coord_to_ass: (2.0 + coord * 0.96) / 100.0 * max, converted to int.
\* The double arithmetic yields, for each coord of 0 .. 100 and each max
\* the specifications call it with (1 .. 12, PLAY_RES_Y and PLAY_RES_X),
\* the integer part of the exact quotient.
srv3_coord_to_ass_truncated_first(coord, max) ==
    ((200 + 96 * coord) \div 10000) * max
srv3_coord_to_ass(coord, max) == ((200 + 96 * coord) * max) \div 10000

\* srv3_position_event: x, y and the alignment stored for an event whose
\* window position is w, NoWp when it has none
srv3_position_event(w) ==
    IF w.addr # NULL
    THEN [x |-> srv3_coord_to_ass(w.x, PLAY_RES_X),
          y |-> srv3_coord_to_ass(w.y, PLAY_RES_Y),
          align |-> srv3_point_to_ass_alignment(w.point)]
    ELSE [x |-> srv3_coord_to_ass(50, PLAY_RES_X),
          y |-> srv3_coord_to_ass(100, PLAY_RES_Y),
          align |-> 2]

\* the window positions srv3_read_window_pos can leave: ap within 0 .. 8,
\* ah and av within 0 .. 100
EventWps ==
    {NoWp} \cup
    {[NewWindowPos(1) EXCEPT !.point = pt, !.x = x, !.y = y] :
       pt \in 0 .. 8, x \in {0, 100}, y \in {0, 100}}

InitPosition ==
    /\ IdleDoc
    /\ IdleClean
    /\ IdlePen
    /\ IdleStyle
    /\ IdleCoord
    /\ event_wp = NoWp
    /\ position = <<>>
    /\ aligned = {}

\* the anchor points decoded so far, with w's added
Aligned(w, pos) ==
    IF w.addr = NULL THEN aligned ELSE aligned \cup {<<w.point, pos.align>>}

\* srv3_event_text_ass positions the event of the next packet
PositionEvent ==
    /\ \E w \in EventWps :
          /\ event_wp' = w
          /\ position' = srv3_position_event(w)
          /\ aligned' = Aligned(w, srv3_position_event(w))
    /\ UNCHANGED <<docVars, cleanVars, penVars, styleVars, coordVars>>

NextPosition == PositionEvent

SpecPosition == InitPosition /\ [][NextPosition]_vars

\* the alignments the claim lists
ListedAlignments == {<<0, 7>>, <<1, 8>>, <<2, 9>>, <<3, 4>>, <<6, 1>>, <<8, 3>>}

\* C14: the alignment stored for an anchor point of 0 .. 8 is within 1 .. 9,
\* no two anchor points share one, the nine of them take all of 1 .. 9, and
\* the points 0, 1, 2, 3, 6 and 8 are given 7, 8, 9, 4, 1 and 3.
C14_AlignmentBijection ==
    /\ \A pa \in aligned : pa[1] \in 0 .. 8 /\ pa[2] \in 1 .. 9
    /\ \A pa \in aligned, pb \in aligned : pa[2] = pb[2] => pa[1] = pb[1]
    /\ \A pa \in aligned, l \in ListedAlignments :
          pa[1] = l[1] => pa[2] = l[2]
    /\ {pa[1] : pa \in aligned} = 0 .. 8 => {pa[2] : pa \in aligned} = 1 .. 9
    /\ event_wp.addr # NULL => <<event_wp.point, position.align>> \in aligned

\* all nine anchor points have been decoded, the last of them point 6
C14_Witness ==
    /\ Cardinality(aligned) = 9
    /\ {pa[1] : pa \in aligned} = 0 .. 8
    /\ event_wp.addr # NULL
    /\ event_wp.point = 6
    /\ position.align = 1

---------------------------------------------------------------------------
(* SpecCoord: srv3_coord_to_ass applied to coord = 0, 1, ..., 100 for one  *)
(* max.                                                                    *)

\* the greatest coordinate srv3_read_window_pos admits for ah and av
MaxCoord == 100

\* the values of max drawn: the small ones and the two the decoder uses
Widths == 1 .. MaxWidth \cup {PLAY_RES_Y, PLAY_RES_X}

InitCoord ==
    /\ IdleDoc
    /\ IdleClean
    /\ IdlePen
    /\ IdleStyle
    /\ IdlePos
    /\ coord_max \in Widths
    /\ coords = <<>>

\* the next coordinate is converted
ConvertCoord ==
    /\ Len(coords) <= MaxCoord
    /\ coords' = Append(coords, srv3_coord_to_ass(Len(coords), coord_max))
    /\ UNCHANGED <<docVars, cleanVars, penVars, styleVars, posVars,
                   coord_max>>

NextCoord == ConvertCoord

SpecCoord == InitCoord /\ [][NextCoord]_vars

\* the result for coordinate c, once converted
CoordOf(c) == coords[c + 1]

NonDecreasing ==
    \A c \in 1 .. Len(coords) - 1 : CoordOf(c - 1) <= CoordOf(c)

\* The claim as stated: for every positive max the results for 0, 50 and
\* 100 increase strictly, and the results never decrease over 0 .. 100.
C15_StrictForEveryWidth ==
    /\ NonDecreasing
    /\ Len(coords) = MaxCoord + 1 =>
          CoordOf(0) < CoordOf(50) /\ CoordOf(50) < CoordOf(100)

\* C15 (amended): for every positive max the results never decrease over
\* 0 .. 100, and for every max of 3 or more the results for 0, 50 and 100
\* increase strictly.
C15_StrictFromWidth3 ==
    /\ NonDecreasing
    /\ Len(coords) = MaxCoord + 1 /\ coord_max >= 3 =>
          CoordOf(0) < CoordOf(50) /\ CoordOf(50) < CoordOf(100)

\* the sweep for max = 3 is complete: 0, 1 and 2 for 0, 50 and 100
C15_Witness ==
    /\ coord_max = 3
    /\ Len(coords) = MaxCoord + 1
    /\ CoordOf(0) = 0
    /\ CoordOf(50) = 1
    /\ CoordOf(100) = 2

---------------------------------------------------------------------------
(* srv3_event_text_ass on the items of the queue.                          *)

\* what a read past the end of the packet's data yields
PastEnd == -1

\* the byte srv3_process_text reads at text[i], i counted from 1
TextByte(txt, i) == IF i <= Len(txt) THEN txt[i] ELSE PastEnd

\* what srv3_process_text prints for one byte: nothing for a carriage
\* return, a backslash and an N for a newline
ProcessByte(c) ==
    IF c = 13 THEN <<>> ELSE IF c = 10 THEN <<92, 78>> ELSE <<c>>

\* srv3_process_text: n bytes are printed from text[i] on
RECURSIVE srv3_process_text(_, _, _)
srv3_process_text(txt, i, n) ==
    IF n <= 0 THEN <<>>
    ELSE ProcessByte(TextByte(txt, i)) \o srv3_process_text(txt, i + 1, n - 1)

\* the loop of srv3_event_text_ass from the k-th segment on, text having
\* advanced by at bytes: the style selected and the text printed, a segment
\* each
RECURSIVE EventTextFrom(_, _, _, _)
EventTextFrom(txt, segs, k, at) ==
    IF k > Len(segs) THEN <<>>
    ELSE <<[style |-> segs[k].pen,
            text |-> srv3_process_text(txt, at + 1, segs[k].size)]>>
         \o EventTextFrom(txt, segs, k + 1, at + segs[k].size)

\* the places of the text that loop reads
RECURSIVE TextReadsFrom(_, _, _)
TextReadsFrom(segs, k, at) ==
    IF k > Len(segs) THEN {}
    ELSE (at + 1 .. at + segs[k].size)
         \cup TextReadsFrom(segs, k + 1, at + segs[k].size)

srv3_event_text_ass(pkt) == EventTextFrom(pkt.data, pkt.event.segments, 1, 0)
TextReads(pkt) == TextReadsFrom(pkt.event.segments, 1, 0)

RECURSIVE SumSizes(_)
SumSizes(segs) ==
    IF segs = <<>> THEN 0 ELSE Head(segs).size + SumSizes(Tail(segs))

\* the item's text is not empty and is newlines only
NewlineOnlyItem(pkt) == pkt.data # <<>> /\ OnlyNewlines(pkt.data)

\* C16: the sizes of a queued event's segments add up to no more than the
\* length of its text, and to exactly that when it has a segment;
\* srv3_event_text_ass reads no byte past the text; and an item whose text
\* is newlines only has no segment, so that none of its bytes is printed.
C16_SegmentsCoverText ==
    \A i \in 1 .. Len(q) :
        /\ SumSizes(q[i].event.segments) <= Len(q[i].data)
        /\ q[i].event.segments # <<>> =>
              /\ SumSizes(q[i].event.segments) = Len(q[i].data)
              /\ TextReads(q[i]) = 1 .. Len(q[i].data)
        /\ TextReads(q[i]) \subseteq 1 .. Len(q[i].data)
        /\ \A k \in 1 .. Len(srv3_event_text_ass(q[i])) :
              \A j \in 1 .. Len(srv3_event_text_ass(q[i])[k].text) :
                  srv3_event_text_ass(q[i])[k].text[j] # PastEnd
        /\ NewlineOnlyItem(q[i]) =>
              /\ q[i].event.segments = <<>>
              /\ srv3_event_text_ass(q[i]) = <<>>

\* a paragraph of one newline-only node was queued without a segment, and
\* after it a paragraph whose one segment spans its text
C16_Witness ==
    /\ Len(q) = 2
    /\ q[1].data = TextNL
    /\ q[1].event.segments = <<>>
    /\ srv3_event_text_ass(q[1]) = <<>>
    /\ Len(q[2].event.segments) = 1
    /\ q[2].event.segments[1].size = Len(q[2].data)
    /\ TextReads(q[2]) = 1 .. Len(q[2].data)

===========================================================================
